---------------------------- MODULE Spec2Model ----------------------------
(***************************************************************************)
(* Model of the Excel-to-PDF converter (src/main.pyw): the background      *)
(* ConversionWorker (convert_files, finalize_filenames, cancel_conversion, *)
(* is_cancelled), the Engine (Excel automation) and the filesystem it      *)
(* drives, and the part of ExcelToPDFConverterApp that starts and cancels  *)
(* a job and handles the queued progress and completion signals.           *)
(*                                                                         *)
(* Strings are sequences of one-character strings, so that basename, join, *)
(* normpath, endswith, rsplit and replace are computed as the library      *)
(* computes them.  The program runs on Windows only (win32com), so os.path *)
(* is ntpath.                                                              *)
(***************************************************************************)
EXTENDS Integers, Sequences, FiniteSets, TLC

(***************************************************************************)
(* Bounds of the model.                                                    *)
(***************************************************************************)
\* longest file list a job is given
MaxFiles == 2

(***************************************************************************)
(* Program constants.                                                      *)
(***************************************************************************)
\* ConversionWorker.__init__(..., retries=3)
DefaultRetries == 3

\* the retry limits a worker is constructed with: the default, which is what
\* toggle_conversion passes, and the two smallest
RetryLimits == {0, 1, DefaultRetries}

(***************************************************************************)
(* String helpers (Python str and ntpath).                                 *)
(***************************************************************************)
BSL == "\\"

\* ntpath: sep is "\", altsep is "/"
IsSep(c) == c \in {BSL, "/"}

\* s[from..] (1-based), empty when from > Len(s)
Drop(s, n) == SubSeq(s, n + 1, Len(s))

Take(s, n) == SubSeq(s, 1, n)

\* str.endswith(suffix)
EndsWith(s, suf) ==
    /\ Len(suf) <= Len(s)
    /\ SubSeq(s, Len(s) - Len(suf) + 1, Len(s)) = suf

\* str.startswith(prefix)
StartsWith(s, pre) ==
    /\ Len(pre) <= Len(s)
    /\ Take(s, Len(pre)) = pre

\* position of the last character of s satisfying being c, 0 when there is none
LastIndexOf(s, c) ==
    LET hits == {i \in 1..Len(s) : s[i] = c}
    IN  IF hits = {} THEN 0 ELSE CHOOSE i \in hits : \A j \in hits : j <= i

\* mutant of RsplitDotHead: s.split('.')[0], everything before the first '.'
SplitDotHead(s) ==
    LET hits == {i \in 1..Len(s) : s[i] = "."}
    IN  IF hits = {} THEN s
        ELSE Take(s, (CHOOSE i \in hits : \A j \in hits : i <= j) - 1)

\* s.rsplit('.', 1)[0]: everything before the last '.', all of s without one
RsplitDotHead(s) ==
    LET i == LastIndexOf(s, ".")
    IN  IF i = 0 THEN s ELSE Take(s, i - 1)

\* ntpath.splitdrive, for drive-letter paths: the length of the drive part
DriveLen(p) == IF Len(p) >= 2 /\ p[2] = ":" THEN 2 ELSE 0

\* os.path.basename(p): what follows the last separator after the drive
Basename(p) ==
    LET rest == Drop(p, DriveLen(p))
        hits == {i \in 1..Len(rest) : IsSep(rest[i])}
        last == IF hits = {} THEN 0 ELSE CHOOSE i \in hits : \A j \in hits : j <= i
    IN  Drop(rest, last)

\* os.path.join(dir, name) for a name with no drive and no separator: a
\* separator is added unless dir is empty or ends in a separator or colon
PathJoin(dir, name) ==
    IF dir # << >> /\ ~IsSep(dir[Len(dir)]) /\ dir[Len(dir)] # ":"
    THEN dir \o <<BSL>> \o name
    ELSE dir \o name

\* str.replace("/", "\\")
RECURSIVE ReplaceAltSep(_)
ReplaceAltSep(s) ==
    IF s = << >> THEN << >>
    ELSE <<(IF s[1] = "/" THEN BSL ELSE s[1])>> \o ReplaceAltSep(Tail(s))

\* str.split("\\"): the components between separators, empty ones included
RECURSIVE SplitSep(_, _)
SplitSep(s, cur) ==
    IF s = << >> THEN <<cur>>
    ELSE IF s[1] = BSL THEN <<cur>> \o SplitSep(Tail(s), << >>)
    ELSE SplitSep(Tail(s), Append(cur, s[1]))

\* the component loop of ntpath.normpath: drops "" and ".", resolves ".."
RECURSIVE NormComps(_, _, _)
NormComps(comps, acc, rooted) ==
    IF comps = << >> THEN acc
    ELSE LET c == comps[1]
             rest == Tail(comps)
         IN  IF c = << >> \/ c = <<".">> THEN NormComps(rest, acc, rooted)
             ELSE IF c = <<".", ".">>
             THEN IF acc # << >> /\ acc[Len(acc)] # <<".", ".">>
                  THEN NormComps(rest, Take(acc, Len(acc) - 1), rooted)
                  ELSE IF acc = << >> /\ rooted
                  THEN NormComps(rest, acc, rooted)
                  ELSE NormComps(rest, Append(acc, c), rooted)
             ELSE NormComps(rest, Append(acc, c), rooted)

\* "\\".join(comps)
RECURSIVE JoinSep(_)
JoinSep(comps) ==
    IF comps = << >> THEN << >>
    ELSE IF Len(comps) = 1 THEN comps[1]
    ELSE comps[1] \o <<BSL>> \o JoinSep(Tail(comps))

\* os.path.normpath(p)
Normpath(p) ==
    LET q == ReplaceAltSep(p)
        drive == Take(q, DriveLen(q))
        tail == Drop(q, DriveLen(q))
        rooted == tail # << >> /\ tail[1] = BSL
        root == IF rooted THEN <<BSL>> ELSE << >>
        comps == NormComps(SplitSep(tail, << >>), << >>, rooted)
        res == drive \o root \o JoinSep(comps)
    IN  IF res = << >> THEN <<".">> ELSE res

\* mutant of ReplacePct20: str.replace('%20', ' ', 1), the first occurrence only
ReplaceFirstPct20(s) ==
    IF s = << >> THEN << >>
    ELSE LET hits == {p \in 1..(Len(s) - 2) : SubSeq(s, p, p + 2) = <<"%", "2", "0">>}
         IN  IF hits = {} THEN s
             ELSE LET first == CHOOSE p \in hits : \A q \in hits : p <= q
                  IN  Take(s, first - 1) \o <<" ">> \o Drop(s, first + 2)

\* str.replace('%20', ' '): left to right, non-overlapping
RECURSIVE ReplacePct20(_)
ReplacePct20(s) ==
    IF s = << >> THEN << >>
    ELSE IF StartsWith(s, <<"%", "2", "0">>)
    THEN <<" ">> \o ReplacePct20(Drop(s, 3))
    ELSE <<s[1]>> \o ReplacePct20(Tail(s))

\* '%20' in s
RECURSIVE ContainsPct20(_)
ContainsPct20(s) ==
    IF Len(s) < 3 THEN FALSE
    ELSE StartsWith(s, <<"%", "2", "0">>) \/ ContainsPct20(Tail(s))

(***************************************************************************)
(* Inputs of the model: the paths the file picker and the directory picker *)
(* may have returned before the first click on the convert button.         *)
(***************************************************************************)
\* "i/%20R.xlsx"
FileA == <<"i", "/", "%", "2", "0", "R", ".", "x", "l", "s", "x">>
\* "B.xls"
FileB == <<"B", ".", "x", "l", "s">>
FileNames == {FileA, FileB}

\* "o": a directory string that join and normpath leave as it is
DirPlain == <<"o">>
\* "c/o": the forward-slash form the Qt directory picker returns
DirSlash == <<"c", "/", "o">>

OutputDirs == {DirPlain, DirSlash}

\* every list of at most n elements of S
RECURSIVE SeqsUpTo(_, _)
SeqsUpTo(S, n) ==
    IF n = 0 THEN {<< >>}
    ELSE LET shorter == SeqsUpTo(S, n - 1)
         IN  shorter \cup {Append(q, x) : q \in {r \in shorter : Len(r) = n - 1}, x \in S}

(***************************************************************************)
(* State.                                                                  *)
(***************************************************************************)
VARIABLES
    selected_files,   \* ExcelToPDFConverterApp.selected_files
    output_dir,       \* ExcelToPDFConverterApp.output_dir, ConversionWorker.output_dir
    btn_text,         \* convert_btn.text()
    btn_enabled,      \* convert_btn.isEnabled()
    progress_bar,     \* progress_bar.value()
    gui_log,          \* the line toggle_conversion logged when it last refused to start
    files,            \* ConversionWorker.files
    retries,          \* ConversionWorker.retries
    cancelled,        \* ConversionWorker.cancelled (read and written under the mutex)
    saved_pdf_paths,  \* ConversionWorker.saved_pdf_paths
    pc,               \* where the thread running convert_files is
    engine,           \* the Excel.Application handle: "none", "open", "released"
    processed_files,  \* local of convert_files
    file_idx,         \* position of the for loop over self.files
    attempt,          \* position of the for loop over range(1, retries + 1)
    success,          \* local of convert_files
    pdf_path,         \* local of convert_files
    fin_idx,          \* position of the for loop of finalize_filenames
    message,          \* the argument of conversion_complete.emit, once evaluated
    fs,               \* the paths at which a PDF written by this worker now is (normalized)
    queue,            \* progress and conversion_complete signals queued to the GUI thread
    trace,            \* history: what the worker did, in order
    cancel_at,        \* history: how much of trace there was when cancel_conversion
                      \* set the flag, -1 while it has not
    mutex,            \* ConversionWorker.mutex: "free", or the thread that holds it
    gui_pc,           \* where the GUI thread is in cancel_conversion
    ic_cancelled,     \* the local `cancelled` of is_cancelled: the value last read
    calls             \* how many calls of is_cancelled the worker has made in this job

gui_vars == <<selected_files, output_dir, btn_text, btn_enabled, progress_bar, gui_log>>
job_vars == <<files, retries>>
loop_vars == <<processed_files, file_idx, attempt, success, pdf_path>>
\* the steps inside cancel_conversion and is_cancelled: LockSpec alone takes
\* them one by one, every other action takes a call of either as one step
lock_vars == <<mutex, gui_pc, ic_cancelled, calls>>
vars == <<selected_files, output_dir, btn_text, btn_enabled, progress_bar, gui_log,
          files, retries, cancelled, saved_pdf_paths, pc, engine, processed_files,
          file_idx, attempt, success, pdf_path, fin_idx, message, fs, queue, trace,
          cancel_at, mutex, gui_pc, ic_cancelled, calls>>

\* total_files = len(self.files)
total_files == Len(files)

CancelledMsg == "Conversion cancelled."
ProcessedMsg == "All files processed."

\* one entry of the history: what happened, for which file (or which recorded
\* path), with which attempt number (or progress value, or 1 for a call that
\* returned and 0 for one that raised)
Ev(e, i, k) == [ev |-> e, i |-> i, k |-> k, m |-> ""]

\* the terminal event: its message, and k = 1 when the flag is set as it is emitted
EvMsg(e, m) == [ev |-> e, i |-> 0, k |-> IF cancelled THEN 1 ELSE 0, m |-> m]

\* a queued signal
Sig(s, v, m) == [sig |-> s, v |-> v, m |-> m]

Init ==
    /\ selected_files \in SeqsUpTo(FileNames, MaxFiles)
    /\ output_dir \in OutputDirs \cup {<< >>}
    /\ btn_text = "Convert to PDF"
    /\ btn_enabled = TRUE
    /\ progress_bar = 0
    /\ gui_log = ""
    /\ files = << >>
    /\ retries \in RetryLimits
    /\ cancelled = FALSE
    /\ saved_pdf_paths = << >>
    /\ pc = "idle"
    /\ engine = "none"
    /\ processed_files = 0
    /\ file_idx = 0
    /\ attempt = 0
    /\ success = FALSE
    /\ pdf_path = << >>
    /\ fin_idx = 0
    /\ message = ""
    /\ fs = {}
    /\ queue = << >>
    /\ trace = << >>
    /\ cancel_at = -1
    /\ mutex = "free"
    /\ gui_pc = "idle"
    /\ ic_cancelled = FALSE
    /\ calls = 0

(***************************************************************************)
(* Decisions of convert_files and finalize_filenames.                      *)
(***************************************************************************)
\* the PDF name of an input basename: .xls/.xlsx stripped, .pdf appended
PdfName(file_name) ==
    IF EndsWith(file_name, <<".", "x", "l", "s">>)
       \/ EndsWith(file_name, <<".", "x", "l", "s", "x">>)
    THEN RsplitDotHead(file_name) \o <<".", "p", "d", "f">>
    ELSE file_name \o <<".", "p", "d", "f">>

\* pdf_path of an input file: normpath(join(output_dir, pdf_name))
PdfPath(dir, file) == Normpath(PathJoin(dir, PdfName(Basename(file))))

\* new_pdf_path of a recorded path: join(output_dir, basename with %20 replaced)
NewPdfPath(dir, path) == PathJoin(dir, ReplacePct20(Basename(path)))

\* the for loop over self.files stops at a set flag
FileLoopBreaks(c) == c

\* mutant of RetryInRange: the range taken one too far
RetryOneTooMany(att, ret) == att <= ret + 1

\* the retry loop runs attempts 1..retries
RetryInRange(att, ret) == att <= ret

\* mutant of RetryLoopBreaks: the retry loop never looks at the flag
RetryLoopIgnoresFlag(c) == FALSE

\* the retry loop stops at a set flag
RetryLoopBreaks(c) == c

\* mutant of LogsFailure: the flag is not looked at
LogsFailureIgnoresFlag(succ, c) == ~succ

\* "Failed to convert ... after N attempts." is logged
LogsFailure(succ, c) == ~succ /\ ~c

\* the file is counted and a progress value emitted
CountsFile(c) == ~c

\* mutant of ProgressPercent: the share of the files still to do
ProgressOfRemaining(processed, total) == ((total - processed) * 100) \div total

\* mutant of ProgressPercent: the counter taken one too far
ProgressOffByOne(processed, total) == ((processed + 1) * 100) \div total

\* int((processed_files / total_files) * 100).  The integer quotient is what
\* the float expression gives for every total below 50 (the two first differ
\* at 29 of 50, where the float product truncates to 57)
ProgressPercent(processed, total) == (processed * 100) \div total

\* finalize_filenames renames when the two path strings differ
NeedsRename(path, new_path) == path # new_path

\* the argument of conversion_complete.emit
TerminalMessage(c) == IF c THEN CancelledMsg ELSE ProcessedMsg

\* the value conversion_complete puts on the progress bar
CompleteValue == 100

Worker(step) == pc = step

Record(e) == trace' = Append(trace, e) /\ UNCHANGED cancel_at

(***************************************************************************)
(* ExcelToPDFConverterApp: the handlers of the GUI thread.                 *)
(***************************************************************************)
\* toggle_conversion, start branch, no files selected
ToggleNoFiles ==
    /\ btn_enabled /\ btn_text = "Convert to PDF"
    /\ selected_files = << >>
    /\ gui_log' = "No files selected. Please select Excel files first."
    /\ UNCHANGED <<lock_vars, selected_files, output_dir, btn_text, btn_enabled, progress_bar,
                   files, retries, cancelled, saved_pdf_paths, pc, engine,
                   processed_files, file_idx, attempt, success, pdf_path, fin_idx,
                   message, fs, queue, trace, cancel_at>>

\* toggle_conversion, start branch, no output folder selected
ToggleNoDir ==
    /\ btn_enabled /\ btn_text = "Convert to PDF"
    /\ selected_files # << >>
    /\ output_dir = << >>
    /\ gui_log' = "No output folder selected. Please select an output folder."
    /\ UNCHANGED <<lock_vars, selected_files, output_dir, btn_text, btn_enabled, progress_bar,
                   files, retries, cancelled, saved_pdf_paths, pc, engine,
                   processed_files, file_idx, attempt, success, pdf_path, fin_idx,
                   message, fs, queue, trace, cancel_at>>

\* toggle_conversion, start branch: a new worker and its thread
ToggleStart ==
    /\ btn_enabled /\ btn_text = "Convert to PDF"
    /\ selected_files # << >>
    /\ output_dir # << >>
    /\ btn_text' = "Cancel"
    /\ progress_bar' = 0
    /\ files' = selected_files
    /\ cancelled' = FALSE
    /\ saved_pdf_paths' = << >>
    /\ pc' = "dispatch"
    /\ engine' = "none"
    /\ processed_files' = 0
    /\ file_idx' = 0
    /\ attempt' = 0
    /\ success' = FALSE
    /\ pdf_path' = << >>
    /\ fin_idx' = 0
    /\ message' = ""
    /\ trace' = << >>
    /\ cancel_at' = -1
    /\ fs' = {}
    /\ UNCHANGED <<lock_vars, selected_files, output_dir, btn_enabled, gui_log, retries, queue>>

\* mutant of ToggleCancel: the cancel click puts the start button back at once,
\* without waiting for the terminal event
ToggleCancelResetsButton ==
    /\ btn_enabled /\ btn_text # "Convert to PDF"
    /\ cancelled' = TRUE
    /\ btn_text' = "Convert to PDF"
    /\ cancel_at' = IF cancel_at = -1 THEN Len(trace) ELSE cancel_at
    /\ UNCHANGED <<lock_vars, selected_files, output_dir, btn_enabled, progress_bar, gui_log,
                   files, retries, saved_pdf_paths, pc, engine, processed_files,
                   file_idx, attempt, success, pdf_path, fin_idx, message, fs, queue,
                   trace>>

\* toggle_conversion, cancel branch: cancel_conversion, then the button is disabled
ToggleCancel ==
    /\ btn_enabled /\ btn_text # "Convert to PDF"
    /\ cancelled' = TRUE
    /\ btn_enabled' = FALSE
    /\ cancel_at' = IF cancel_at = -1 THEN Len(trace) ELSE cancel_at
    /\ UNCHANGED <<lock_vars, selected_files, output_dir, btn_text, progress_bar, gui_log,
                   files, retries, saved_pdf_paths, pc, engine, processed_files,
                   file_idx, attempt, success, pdf_path, fin_idx, message, fs, queue,
                   trace>>

\* update_progress, run for the oldest queued signal
HandleProgress ==
    /\ queue # << >> /\ Head(queue).sig = "progress"
    /\ progress_bar' = Head(queue).v
    /\ queue' = Tail(queue)
    /\ UNCHANGED <<lock_vars, selected_files, output_dir, btn_text, btn_enabled, gui_log,
                   files, retries, cancelled, saved_pdf_paths, pc, engine,
                   processed_files, file_idx, attempt, success, pdf_path, fin_idx,
                   message, fs, trace, cancel_at>>

\* conversion_complete, run for the oldest queued signal
HandleComplete ==
    /\ queue # << >> /\ Head(queue).sig = "complete"
    /\ btn_enabled' = TRUE
    /\ btn_text' = "Convert to PDF"
    /\ progress_bar' = CompleteValue
    /\ queue' = Tail(queue)
    /\ UNCHANGED <<lock_vars, selected_files, output_dir, gui_log, files, retries, cancelled,
                   saved_pdf_paths, pc, engine, processed_files, file_idx, attempt,
                   success, pdf_path, fin_idx, message, fs, trace, cancel_at>>

(***************************************************************************)
(* ConversionWorker.convert_files, one action per step of the thread.  The *)
(* steps are cut at the reads of the cancellation flag and at the calls    *)
(* into the Engine, each of which may raise.                               *)
(***************************************************************************)
\* CoInitialize and win32.Dispatch("Excel.Application")
Dispatch ==
    /\ Worker("dispatch")
    /\ \E ok \in BOOLEAN :
         IF ok
         THEN /\ engine' = "open"
              /\ pc' = "visible"
              /\ Record(Ev("Dispatch", 0, 1))
         ELSE /\ engine' = engine
              /\ pc' = "raised"
              /\ Record(Ev("Dispatch", 0, 0))
    /\ UNCHANGED <<lock_vars, gui_vars, job_vars, loop_vars, cancelled, saved_pdf_paths,
                   fin_idx, message, fs, queue>>

\* excel_app.Visible = False, then the locals of the file loop
SetVisible ==
    /\ Worker("visible")
    /\ \E ok \in BOOLEAN :
         IF ok
         THEN /\ pc' = "file"
              /\ file_idx' = 1
              /\ processed_files' = 0
              /\ Record(Ev("Visible", 0, 1))
         ELSE /\ pc' = "raised"
              /\ UNCHANGED <<file_idx, processed_files>>
              /\ Record(Ev("Visible", 0, 0))
    /\ UNCHANGED <<lock_vars, gui_vars, job_vars, cancelled, saved_pdf_paths, engine, attempt,
                   success, pdf_path, fin_idx, message, fs, queue>>

\* the head of the for loop over self.files, up to reset_permissions
NextFile ==
    /\ Worker("file")
    /\ IF file_idx > total_files
       THEN /\ pc' = "quit"
            /\ UNCHANGED <<pdf_path, success, attempt, trace, cancel_at>>
       ELSE IF FileLoopBreaks(cancelled)
       THEN /\ pc' = "quit"
            /\ Record(Ev("log_cancelled", file_idx, 0))
            /\ UNCHANGED <<pdf_path, success, attempt>>
       ELSE /\ pdf_path' = PdfPath(output_dir, files[file_idx])
            /\ success' = FALSE
            /\ attempt' = 1
            /\ pc' = "retry"
            /\ UNCHANGED <<trace, cancel_at>>
    /\ UNCHANGED <<lock_vars, gui_vars, job_vars, cancelled, saved_pdf_paths, engine,
                   processed_files, file_idx, fin_idx, message, fs, queue>>

\* the head of the retry loop, up to the "Attempting conversion" line
NextAttempt ==
    /\ Worker("retry")
    /\ IF RetryInRange(attempt, retries) /\ ~RetryLoopBreaks(cancelled)
       THEN /\ pc' = "convert"
            /\ Record(Ev("start", file_idx, attempt))
       ELSE /\ pc' = "after"
            /\ UNCHANGED <<trace, cancel_at>>
    /\ UNCHANGED <<lock_vars, gui_vars, job_vars, loop_vars, cancelled, saved_pdf_paths, engine,
                   fin_idx, message, fs, queue>>

\* mutant of Convert: the path is recorded before the Engine is called, and so
\* whether the attempt returns or raises
ConvertRecordsEarly ==
    /\ Worker("convert")
    /\ saved_pdf_paths' = Append(saved_pdf_paths, pdf_path)
    /\ \E outcome \in {"ok", "error"} :
         /\ IF outcome = "ok"
            THEN /\ fs' = fs \cup {pdf_path}
                 /\ success' = TRUE
                 /\ pc' = "after"
                 /\ Record(Ev("ok", file_idx, attempt))
            ELSE /\ pc' = "sleep"
                 /\ Record(Ev("err", file_idx, attempt))
                 /\ UNCHANGED <<fs, success>>
    /\ UNCHANGED <<lock_vars, gui_vars, job_vars, cancelled, engine, processed_files, file_idx,
                   attempt, pdf_path, fin_idx, message, queue>>

\* Workbooks.Open, ExportAsFixedFormat, Close: all three return, or one raises.
\* fs holds the PDFs of this worker's attempts that returned, which are the
\* files finalize_filenames visits.  Whatever else is in the output directory
\* (the output of earlier jobs, what a raising attempt left behind) can only
\* make a rename raise, and a rename may raise at any time
Convert ==
    /\ Worker("convert")
    /\ \E outcome \in {"ok", "error"} :
         /\ IF outcome = "ok"
            THEN /\ fs' = fs \cup {pdf_path}
                 /\ saved_pdf_paths' = Append(saved_pdf_paths, pdf_path)
                 /\ success' = TRUE
                 /\ pc' = "after"
                 /\ Record(Ev("ok", file_idx, attempt))
            ELSE /\ pc' = "sleep"
                 /\ Record(Ev("err", file_idx, attempt))
                 /\ UNCHANGED <<fs, saved_pdf_paths, success>>
    /\ UNCHANGED <<lock_vars, gui_vars, job_vars, cancelled, engine, processed_files, file_idx,
                   attempt, pdf_path, fin_idx, message, queue>>

\* time.sleep(1) of the except branch, then the next value of attempt
Sleep ==
    /\ Worker("sleep")
    /\ Record(Ev("sleep", file_idx, attempt))
    /\ attempt' = attempt + 1
    /\ pc' = "retry"
    /\ UNCHANGED <<lock_vars, gui_vars, job_vars, cancelled, saved_pdf_paths, engine,
                   processed_files, file_idx, success, pdf_path, fin_idx, message,
                   fs, queue>>

\* after the retry loop: the per-file failure line
AfterRetries ==
    /\ Worker("after")
    /\ IF LogsFailure(success, cancelled)
       THEN Record(Ev("log_failed", file_idx, retries))
       ELSE UNCHANGED <<trace, cancel_at>>
    /\ pc' = "count"
    /\ UNCHANGED <<lock_vars, gui_vars, job_vars, loop_vars, cancelled, saved_pdf_paths, engine,
                   fin_idx, message, fs, queue>>

\* the end of the loop body: the counter and the progress signal
CountFile ==
    /\ Worker("count")
    /\ IF CountsFile(cancelled)
       THEN LET percent == ProgressPercent(processed_files + 1, total_files)
            IN  /\ processed_files' = processed_files + 1
                /\ queue' = Append(queue, Sig("progress", percent, ""))
                /\ Record(Ev("progress", processed_files + 1, percent))
       ELSE UNCHANGED <<processed_files, queue, trace, cancel_at>>
    /\ file_idx' = file_idx + 1
    /\ pc' = "file"
    /\ UNCHANGED <<lock_vars, gui_vars, job_vars, cancelled, saved_pdf_paths, engine, attempt,
                   success, pdf_path, fin_idx, message, fs>>

\* excel_app.Quit() and CoUninitialize
Quit ==
    /\ Worker("quit")
    /\ \E ok \in BOOLEAN :
         IF ok
         THEN /\ engine' = "released"
              /\ pc' = "finalize"
              /\ fin_idx' = 1
              /\ Record(Ev("Quit", 0, 1))
         ELSE /\ pc' = "raised"
              /\ UNCHANGED <<engine, fin_idx>>
              /\ Record(Ev("Quit", 0, 0))
    /\ UNCHANGED <<lock_vars, gui_vars, job_vars, loop_vars, cancelled, saved_pdf_paths,
                   message, fs, queue>>

\* mutant of Finalize: no try/except around the rename, so that an error of
\* os.rename escapes finalize_filenames and ends the thread
FinalizeStopsAtFailure ==
    /\ Worker("finalize")
    /\ IF fin_idx > Len(saved_pdf_paths)
       THEN /\ pc' = "complete"
            /\ Record(Ev("finalized", 0, 0))
            /\ UNCHANGED <<fin_idx, fs>>
       ELSE LET path == saved_pdf_paths[fin_idx]
                new_path == NewPdfPath(output_dir, path)
                target == Normpath(new_path)
            IN  /\ fin_idx' = fin_idx + 1
                /\ IF NeedsRename(path, new_path)
                   THEN \E raises \in BOOLEAN :
                          IF path \in fs
                          THEN IF raises \/ (target \in fs /\ target # path)
                               THEN /\ fs' = fs
                                    /\ pc' = "raised"
                                    /\ Record(Ev("rename_failed", fin_idx, 0))
                               ELSE /\ fs' = (fs \ {path}) \cup {target}
                                    /\ pc' = pc
                                    /\ Record(Ev("renamed", fin_idx, 0))
                          ELSE /\ fs' = fs
                               /\ pc' = pc
                               /\ Record(Ev("not_found", fin_idx, 0))
                   ELSE /\ fs' = fs
                        /\ pc' = pc
                        /\ Record(Ev("kept", fin_idx, 0))
    /\ UNCHANGED <<lock_vars, gui_vars, job_vars, loop_vars, cancelled, saved_pdf_paths, engine,
                   message, queue>>

\* one pass of the loop of finalize_filenames.  os.rename raises when the
\* destination is another existing file, and may raise for a reason of its
\* own (raises); nothing removes a file the worker wrote
Finalize ==
    /\ Worker("finalize")
    /\ IF fin_idx > Len(saved_pdf_paths)
       THEN /\ pc' = "complete"
            /\ Record(Ev("finalized", 0, 0))
            /\ UNCHANGED <<fin_idx, fs>>
       ELSE LET path == saved_pdf_paths[fin_idx]
                new_path == NewPdfPath(output_dir, path)
                target == Normpath(new_path)
            IN  /\ fin_idx' = fin_idx + 1
                /\ pc' = pc
                /\ IF NeedsRename(path, new_path)
                   THEN \E raises \in BOOLEAN :
                          IF path \in fs
                          THEN IF raises \/ (target \in fs /\ target # path)
                               THEN /\ fs' = fs
                                    /\ Record(Ev("rename_failed", fin_idx, 0))
                               ELSE /\ fs' = (fs \ {path}) \cup {target}
                                    /\ Record(Ev("renamed", fin_idx, 0))
                          ELSE /\ fs' = fs
                               /\ Record(Ev("not_found", fin_idx, 0))
                   ELSE /\ fs' = fs
                        /\ Record(Ev("kept", fin_idx, 0))
    /\ UNCHANGED <<lock_vars, gui_vars, job_vars, loop_vars, cancelled, saved_pdf_paths, engine,
                   message, queue>>

\* the argument of the last line of convert_files is evaluated (is_cancelled)
EvalMessage ==
    /\ Worker("complete")
    /\ message' = TerminalMessage(cancelled)
    /\ pc' = "emit"
    /\ Record(Ev("eval", 0, 0))
    /\ UNCHANGED <<lock_vars, gui_vars, job_vars, loop_vars, cancelled, saved_pdf_paths, engine,
                   fin_idx, fs, queue>>

\* conversion_complete.emit(message); convert_files returns
EmitComplete ==
    /\ Worker("emit")
    /\ queue' = Append(queue, Sig("complete", 0, message))
    /\ Record(EvMsg("complete", message))
    /\ pc' = "done"
    /\ UNCHANGED <<lock_vars, gui_vars, job_vars, loop_vars, cancelled, saved_pdf_paths, engine,
                   fin_idx, message, fs>>

Next ==
    \/ ToggleNoFiles
    \/ ToggleNoDir
    \/ ToggleStart
    \/ ToggleCancel
    \/ HandleProgress
    \/ HandleComplete
    \/ Dispatch
    \/ SetVisible
    \/ NextFile
    \/ NextAttempt
    \/ Convert
    \/ Sleep
    \/ AfterRetries
    \/ CountFile
    \/ Quit
    \/ Finalize
    \/ EvalMessage
    \/ EmitComplete

Spec == Init /\ [][Next]_vars

(***************************************************************************)
(* The paths of a job: the worker alone, from the start click to the end   *)
(* of finalize_filenames, over a wider choice of file names and output     *)
(* directories, and with finalize_filenames called a second time on the    *)
(* same worker once it has returned.                                       *)
(***************************************************************************)
\* "a.xls.xlsx": two dots, one suffix inside the other
FileC == <<"a", ".", "x", "l", "s", ".", "x", "l", "s", "x">>
\* "data.csv.pdf": neither suffix (the file dialog accepts a typed name)
FileD == <<"d", "a", "t", "a", ".", "c", "s", "v", ".", "p", "d", "f">>
\* "%20p%20.xls": two occurrences of %20
FileE == <<"%", "2", "0", "p", "%", "2", "0", ".", "x", "l", "s">>
\* " p .xls": the name FileE is renamed to is the PDF name of this one
FileF == <<" ", "p", " ", ".", "x", "l", "s">>

PathFiles == FileNames \cup {FileC, FileD, FileE, FileF}

\* "%20d": a directory whose own name holds %20
DirPct == <<"%", "2", "0", "d">>

PathDirs == OutputDirs \cup {DirPct}

\* the state toggle_conversion leaves when it has started a worker
PathInit ==
    /\ selected_files \in SeqsUpTo(PathFiles, MaxFiles) \ {<< >>}
    /\ output_dir \in PathDirs
    /\ btn_text = "Cancel"
    /\ btn_enabled = TRUE
    /\ progress_bar = 0
    /\ gui_log = ""
    /\ files = selected_files
    /\ retries = 1
    /\ cancelled = FALSE
    /\ saved_pdf_paths = << >>
    /\ pc = "dispatch"
    /\ engine = "none"
    /\ processed_files = 0
    /\ file_idx = 0
    /\ attempt = 0
    /\ success = FALSE
    /\ pdf_path = << >>
    /\ fin_idx = 0
    /\ message = ""
    /\ fs = {}
    /\ queue = << >>
    /\ trace = << >>
    /\ cancel_at = -1
    /\ mutex = "free"
    /\ gui_pc = "idle"
    /\ ic_cancelled = FALSE
    /\ calls = 0

\* finalize_filenames is called again on the worker, after its first call
\* returned: the same results list, the files where the first call left them
FinalizeAgain ==
    /\ Worker("complete")
    /\ \A n \in 1..Len(trace) : trace[n].ev # "again"
    /\ pc' = "finalize"
    /\ fin_idx' = 1
    /\ Record(Ev("again", 0, 0))
    /\ UNCHANGED <<lock_vars, gui_vars, job_vars, loop_vars, cancelled, saved_pdf_paths, engine,
                   message, fs, queue>>

PathNext ==
    \/ Dispatch
    \/ SetVisible
    \/ NextFile
    \/ NextAttempt
    \/ Convert
    \/ Sleep
    \/ AfterRetries
    \/ CountFile
    \/ Quit
    \/ Finalize
    \/ FinalizeAgain

PathSpec == PathInit /\ [][PathNext]_vars

(***************************************************************************)
(* The cancellation flag and its mutex: cancel_conversion and is_cancelled *)
(* statement by statement, the GUI thread in the one and the worker thread *)
(* in the other.  convert_files is here what calls is_cancelled (lines 42, *)
(* 59, 80, 83 and 91) some number of times and then returns; the value of  *)
(* its last call, the one of line 91, decides the terminal message.        *)
(***************************************************************************)
\* most calls of is_cancelled a job makes
MaxCalls == 4

\* mutant of CanLock: lock() returns at once, whoever holds the mutex
CanLockAlways(m) == TRUE

\* QMutex.lock() returns when no thread holds the mutex
CanLock(m) == m = "free"

LockInit ==
    /\ Init
    /\ selected_files = <<FileB>>
    /\ output_dir = DirPlain
    /\ retries = DefaultRetries

\* toggle_conversion, start branch: a new worker, with its own flag and mutex
LockStart ==
    /\ btn_enabled /\ btn_text = "Convert to PDF"
    /\ gui_pc = "idle"
    /\ selected_files # << >>
    /\ output_dir # << >>
    /\ btn_text' = "Cancel"
    /\ progress_bar' = 0
    /\ files' = selected_files
    /\ cancelled' = FALSE
    /\ mutex' = "free"
    /\ saved_pdf_paths' = << >>
    /\ calls' = 0
    /\ pc' = "running"
    /\ UNCHANGED <<selected_files, output_dir, btn_enabled, gui_log, retries, engine,
                   loop_vars, fin_idx, message, fs, queue, trace, cancel_at, gui_pc,
                   ic_cancelled>>

\* toggle_conversion, cancel branch, into cancel_conversion: self.mutex.lock()
CancelLock ==
    /\ btn_enabled /\ btn_text # "Convert to PDF"
    /\ gui_pc = "idle"
    /\ CanLock(mutex)
    /\ mutex' = "gui"
    /\ gui_pc' = "locked"
    /\ UNCHANGED <<gui_vars, job_vars, loop_vars, cancelled, saved_pdf_paths, pc,
                   engine, fin_idx, message, fs, queue, trace, cancel_at, ic_cancelled,
                   calls>>

\* cancel_conversion: self.cancelled = True
CancelWrite ==
    /\ gui_pc = "locked"
    /\ cancelled' = TRUE
    /\ gui_pc' = "written"
    /\ UNCHANGED <<gui_vars, job_vars, loop_vars, saved_pdf_paths, pc, engine, fin_idx,
                   message, fs, queue, trace, cancel_at, mutex, ic_cancelled, calls>>

\* cancel_conversion: self.mutex.unlock(); then the button is disabled
CancelReturn ==
    /\ gui_pc = "written"
    /\ mutex' = "free"
    /\ gui_pc' = "idle"
    /\ btn_enabled' = FALSE
    /\ UNCHANGED <<selected_files, output_dir, btn_text, progress_bar, gui_log,
                   job_vars, loop_vars, cancelled, saved_pdf_paths, pc, engine, fin_idx,
                   message, fs, queue, trace, cancel_at, ic_cancelled, calls>>

\* is_cancelled: self.mutex.lock()
IsCancelledLock ==
    /\ Worker("running")
    /\ calls < MaxCalls
    /\ CanLock(mutex)
    /\ mutex' = "worker"
    /\ pc' = "ic_locked"
    /\ UNCHANGED <<gui_vars, job_vars, loop_vars, cancelled, saved_pdf_paths, engine,
                   fin_idx, message, fs, queue, trace, cancel_at, gui_pc, ic_cancelled,
                   calls>>

\* is_cancelled: cancelled = self.cancelled
IsCancelledRead ==
    /\ Worker("ic_locked")
    /\ ic_cancelled' = cancelled
    /\ pc' = "ic_read"
    /\ UNCHANGED <<gui_vars, job_vars, loop_vars, cancelled, saved_pdf_paths, engine,
                   fin_idx, message, fs, queue, trace, cancel_at, mutex, gui_pc, calls>>

\* is_cancelled: self.mutex.unlock(); return cancelled
IsCancelledReturn ==
    /\ Worker("ic_read")
    /\ mutex' = "free"
    /\ calls' = calls + 1
    /\ pc' = "running"
    /\ UNCHANGED <<gui_vars, job_vars, loop_vars, cancelled, saved_pdf_paths, engine,
                   fin_idx, message, fs, queue, trace, cancel_at, gui_pc, ic_cancelled>>

\* the call of line 91 has returned: the terminal event, and convert_files returns
LockReturn ==
    /\ Worker("running")
    /\ calls >= 1
    /\ message' = TerminalMessage(ic_cancelled)
    /\ queue' = Append(queue, Sig("complete", 0, message'))
    /\ pc' = "done"
    /\ UNCHANGED <<lock_vars, gui_vars, job_vars, loop_vars, cancelled, saved_pdf_paths,
                   engine, fin_idx, fs, trace, cancel_at>>

\* conversion_complete, which the GUI thread runs between two of its handlers
LockComplete == gui_pc = "idle" /\ HandleComplete

LockNext ==
    \/ LockStart
    \/ CancelLock
    \/ CancelWrite
    \/ CancelReturn
    \/ IsCancelledLock
    \/ IsCancelledRead
    \/ IsCancelledReturn
    \/ LockReturn
    \/ LockComplete

LockSpec == LockInit /\ [][LockNext]_vars

(***************************************************************************)
(* Reading the history.                                                    *)
(***************************************************************************)
\* the positions of the history holding an event named e
At(e) == {n \in 1..Len(trace) : trace[n].ev = e}

\* the positions holding event e of file (or recorded path) i
AtOf(e, i) == {n \in At(e) : trace[n].i = i}

\* event e is event named name of file i, attempt k
Is(e, name, i, k) == e.ev = name /\ e.i = i /\ e.k = k

\* convert_files has returned, or an error has ended it
WorkerEnded == pc \in {"done", "raised"}

\* toggle_conversion creates a worker in this step
NewWorker == btn_text = "Convert to PDF" /\ btn_text' = "Cancel"

(***************************************************************************)
(* C1.  Every run of convert_files emits exactly one terminal event, whose *)
(* message is "Conversion cancelled." if the flag is set when the event is *)
(* emitted and "All files processed." otherwise.                           *)
(* Stated of a run that has ended; the code violates it: an error raised   *)
(* by Dispatch, by the Visible assignment or by Quit ends the run with no  *)
(* terminal event.                                                         *)
(***************************************************************************)
C1_OneTerminalEvent ==
    WorkerEnded =>
        /\ Cardinality(At("complete")) = 1
        /\ \A n \in At("complete") :
             trace[n].m = IF trace[n].k = 1 THEN CancelledMsg ELSE ProcessedMsg

(***************************************************************************)
(* C2.  The Engine handle is released (Quit) exactly once on every exit    *)
(* path of convert_files, an escaping error included.                      *)
(* Stated of a run that has ended with the handle acquired; the code       *)
(* violates it: nothing catches an error raised after Dispatch returned,   *)
(* so the run ends with the handle still open.                             *)
(***************************************************************************)
C2_EngineReleasedOnEveryExit ==
    (WorkerEnded /\ engine # "none") =>
        /\ engine = "released"
        /\ Cardinality(At("Quit")) = 1
        /\ Cardinality(AtOf("Dispatch", 0)) = 1

(***************************************************************************)
(* C3.  Once the flag is set, no conversion attempt is started whose       *)
(* pre-attempt check comes after it: the attempt in flight runs to its     *)
(* outcome, the current file gets no further retry, no later file is       *)
(* attempted, and the terminal event carries the cancellation message.     *)
(* As amended: the terminal event carries the cancellation message when    *)
(* the flag was set before the worker's last read of it (the is_cancelled  *)
(* call that computes the message).                                        *)
(***************************************************************************)
\* the next thing the worker does after starting an attempt is to report that
\* attempt's outcome, wherever the flag was set
AttemptsUninterrupted ==
    \A n \in 1..(Len(trace) - 1) :
        trace[n].ev = "start" =>
            /\ trace[n + 1].ev \in {"ok", "err"}
            /\ trace[n + 1].i = trace[n].i
            /\ trace[n + 1].k = trace[n].k

C3_CancelTakesEffectAtNextCheck ==
    /\ AttemptsUninterrupted
    /\ cancel_at >= 0 =>
         \A n \in (cancel_at + 1)..Len(trace) :
             /\ trace[n].ev # "start"
             /\ (trace[n].ev = "complete"
                   /\ \E e \in (cancel_at + 1)..(n - 1) : trace[e].ev = "eval")
                  => trace[n].m = CancelledMsg

\* the claim as written: any terminal event emitted after the flag was set
\* carries the cancellation message
C3_AsWritten ==
    /\ AttemptsUninterrupted
    /\ cancel_at >= 0 =>
         \A n \in (cancel_at + 1)..Len(trace) :
             /\ trace[n].ev # "start"
             /\ trace[n].ev = "complete" => trace[n].m = CancelledMsg

\* a job of two files with the default limit, cancelled while the first
\* attempt of file 1 was in flight: that attempt failed, nothing else was
\* attempted, and the job ended with the cancellation message
C3_Witness ==
    /\ pc = "done" /\ total_files = 2 /\ retries = DefaultRetries
    /\ message = CancelledMsg
    /\ cancel_at >= 1
    /\ Is(trace[cancel_at], "start", 1, 1)
    /\ Is(trace[cancel_at + 1], "err", 1, 1)
    /\ Cardinality(At("start")) = 1

(***************************************************************************)
(* C4.  If cancellation is requested before the worker checks the first    *)
(* file, no conversion attempt is made, the results list stays empty,      *)
(* finalization still runs (over the empty list) and the terminal event is *)
(* "Conversion cancelled.".                                                *)
(* Stated of a run that has ended after the first check saw the flag; the  *)
(* code violates it when Quit raises (the missing cleanup of C2): neither  *)
(* finalization nor the terminal event follows.                            *)
(***************************************************************************)
C4_CancelBeforeFirstFile ==
    (WorkerEnded /\ AtOf("log_cancelled", 1) # {}) =>
        /\ At("start") = {}
        /\ saved_pdf_paths = << >>
        /\ At("finalized") # {}
        /\ \E n \in At("complete") : trace[n].m = CancelledMsg

(***************************************************************************)
(* C5.  The progress value shown by the GUI over one job never decreases,  *)
(* stays within 0..100, and is exactly 100 when the terminal event is      *)
(* handled, whatever number of files failed and also for a cancelled job.  *)
(* A job runs, for the GUI, from the start click (button text "Cancel") to *)
(* the handling of the terminal event.                                     *)
(***************************************************************************)
C5_ProgressMonotone ==
    [][ /\ progress_bar' \in 0..100
        /\ (btn_text = "Cancel" => progress_bar' >= progress_bar)
        /\ (queue # << >> /\ Head(queue).sig = "complete" /\ queue' = Tail(queue)
              => progress_bar' = 100) ]_vars

\* a cancelled job of two files whose first file failed for good and was
\* counted (50), and whose terminal event has been handled
C5_Witness ==
    /\ pc = "done" /\ queue = << >> /\ btn_text = "Convert to PDF"
    /\ progress_bar = 100
    /\ cancelled
    /\ AtOf("log_failed", 1) # {}
    /\ \E n \in At("progress") : trace[n].k = 50

(***************************************************************************)
(* C6.  Progress reaches exactly 100 only at terminal completion: the      *)
(* value 100 is never emitted or displayed before the terminal event.      *)
(* As amended: the worker emits 100 before the terminal event exactly when *)
(* it has counted the last file of the list (processed_files =             *)
(* total_files); every other emitted value is below 100, so in a job that  *)
(* did not count its last file the bar shows 100 only once the terminal    *)
(* event is handled.                                                       *)
(***************************************************************************)
C6_HundredOnlyAfterLastFile ==
    /\ \A n \in 1..Len(trace) :
         trace[n].ev = "progress" =>
             /\ trace[n].k <= 100
             /\ trace[n].k = 100 <=> trace[n].i = total_files
    /\ (btn_text = "Cancel" /\ progress_bar = 100) =>
         \E n \in 1..Len(trace) :
             trace[n].ev = "progress" /\ trace[n].i = total_files

\* the claim as written: no emitted value is 100, and the bar does not show
\* 100 while the job is still running for the GUI
C6_AsWritten ==
    /\ \A n \in 1..Len(trace) : trace[n].ev = "progress" => trace[n].k < 100
    /\ btn_text = "Cancel" => progress_bar < 100

\* the last file has been counted, 100 is on the bar, and the worker has not
\* yet released the Engine, let alone emitted the terminal event
C6_Witness ==
    /\ pc = "quit" /\ btn_text = "Cancel"
    /\ progress_bar = 100
    /\ At("complete") = {}

(***************************************************************************)
(* C7.  For every file the worker makes at most `retries` attempts,        *)
(* numbered 1..retries in order; no attempt is made for a file after one   *)
(* of its attempts succeeded; every failed attempt is followed by the      *)
(* backoff wait before the next attempt of that file.                      *)
(***************************************************************************)
C7_BoundedRetries ==
    \A n \in 1..Len(trace) :
        trace[n].ev = "start" =>
            LET i == trace[n].i
                k == trace[n].k
            IN  /\ k \in 1..retries
                \* attempt 1 is the file's first; attempt k > 1 comes right
                \* after attempt k - 1, its failure and the wait
                /\ k = 1 => \A j \in 1..(n - 1) : ~(trace[j].ev = "start" /\ trace[j].i = i)
                /\ k > 1 => /\ n > 3
                            /\ Is(trace[n - 3], "start", i, k - 1)
                            /\ Is(trace[n - 2], "err", i, k - 1)
                            /\ Is(trace[n - 1], "sleep", i, k - 1)
                \* no success of the file comes before one of its attempts
                /\ \A j \in 1..(n - 1) : ~(trace[j].ev = "ok" /\ trace[j].i = i)

\* file 1 failed twice, each failure followed by the wait, and succeeded at
\* its third and last attempt
C7_Witness ==
    /\ retries = DefaultRetries
    /\ \E n \in AtOf("ok", 1) : trace[n].k = DefaultRetries
    /\ Cardinality(AtOf("sleep", 1)) = 2

(***************************************************************************)
(* C8.  "Failed to convert ... after N attempts." is logged for a file     *)
(* exactly when none of its attempts succeeded and the flag is not set at  *)
(* the check that follows the retry loop; whenever it is logged, exactly   *)
(* `retries` attempts were made for the file and all of them failed; at    *)
(* most one such line is logged per file.                                  *)
(***************************************************************************)
C8_FailureLine ==
    /\ [](\A n \in At("log_failed") :
            LET i == trace[n].i
            IN  /\ Cardinality({j \in AtOf("start", i) : j < n}) = retries
                /\ Cardinality({j \in AtOf("err", i) : j < n}) = retries
                /\ AtOf("ok", i) = {}
                /\ Cardinality(AtOf("log_failed", i)) = 1)
    /\ [][ (pc = "after" /\ pc' = "count") =>
             ( (/\ Len(trace') = Len(trace) + 1
                /\ trace'[Len(trace')].ev = "log_failed"
                /\ trace'[Len(trace')].i = file_idx)
               <=> (AtOf("ok", file_idx) = {} /\ ~cancelled) ) ]_vars

\* a finished job of two files with the default limit: file 1 failed for good
\* after three attempts, file 2 was converted
C8_Witness ==
    /\ pc = "done" /\ retries = DefaultRetries /\ total_files = 2
    /\ AtOf("log_failed", 1) # {}
    /\ Cardinality(AtOf("err", 1)) = DefaultRetries
    /\ AtOf("ok", 2) # {}

(***************************************************************************)
(* C9.  After the file loop ends (completed or cancelled) these steps      *)
(* happen in this order, each exactly once: the Engine handle is released, *)
(* finalize_filenames visits every recorded path, the terminal event is    *)
(* emitted; the worker produces nothing after the terminal event.          *)
(* Stated of a run that has ended after its file loop ended; the code      *)
(* violates it when Quit raises (the missing cleanup of C2): neither       *)
(* finalization nor the terminal event follows.                            *)
(***************************************************************************)
VisitEvents == {"kept", "renamed", "not_found", "rename_failed"}

C9_EpilogueOrder ==
    (WorkerEnded /\ At("Quit") # {}) =>
        /\ Cardinality(At("Quit")) = 1
        /\ Cardinality(At("finalized")) = 1
        /\ Cardinality(At("complete")) = 1
        /\ \A q \in At("Quit"), f \in At("finalized"), c \in At("complete") :
             /\ trace[q].k = 1
             /\ q < f /\ f < c
             /\ c = Len(trace)
             /\ \A i \in 1..Len(saved_pdf_paths) :
                  \E v \in 1..Len(trace) :
                      /\ trace[v].ev \in VisitEvents /\ trace[v].i = i
                      /\ q < v /\ v < f
                      /\ \A w \in 1..Len(trace) :
                           (trace[w].ev \in VisitEvents /\ trace[w].i = i) => w = v

(***************************************************************************)
(* C10.  Finalization renames a recorded output file only if its basename  *)
(* contains %20: for a recorded path without %20, finalize_filenames calls *)
(* no rename and emits no rename log line, whatever output directory       *)
(* string the caller supplied.                                             *)
(* The code violates it: it compares the normalized pdf_path with a        *)
(* new_pdf_path that is joined but not normalized, so with an output       *)
(* directory that normpath changes every recorded file is renamed (onto    *)
(* itself) and logged.                                                     *)
(***************************************************************************)
C10_RenameOnlyWithPct20 ==
    \A n \in 1..Len(trace) :
        trace[n].ev \in {"renamed", "rename_failed", "not_found"} =>
            ContainsPct20(Basename(saved_pdf_paths[trace[n].i]))

(***************************************************************************)
(* C11.  Finalization is idempotent: a second call of finalize_filenames   *)
(* over the same results list, with the files where the first call left    *)
(* them, performs no rename, so that every file keeps its name.            *)
(* Stated under PathSpec of every step of the second call (a file changes  *)
(* its name only in a step that records a rename).  The code violates it:  *)
(* with an output directory that normpath changes, the comparison of C10   *)
(* treats every recorded path as one to rename, and the second call        *)
(* renames (onto itself) and logs each file the first call left in place.  *)
(***************************************************************************)
C11_FinalizeIdempotent ==
    \A n \in 1..Len(trace) :
        trace[n].ev = "renamed" => \A j \in 1..(n - 1) : trace[j].ev # "again"

(***************************************************************************)
(* C12.  In finalize_filenames a recorded file that is missing, or whose   *)
(* rename fails, produces a log line only: the files keep their names, the *)
(* next recorded path is visited (or the loop ends, after the last one),   *)
(* and the terminal event is emitted with the message the flag decides:    *)
(* the cancellation message exactly when the flag was set before the read  *)
(* that computes the message.                                              *)
(***************************************************************************)
FailedVisits == {"not_found", "rename_failed"}

C12_RenameFailureOnlyLogs ==
    /\ [](\A n \in 1..Len(trace) :
            trace[n].ev \in FailedVisits =>
                \* the thread goes on to the end of convert_files
                /\ pc \in {"finalize", "complete", "emit", "done"}
                \* the next path is visited, or the loop ends after the last
                /\ n < Len(trace) =>
                     IF trace[n].i < Len(saved_pdf_paths)
                     THEN /\ trace[n + 1].ev \in VisitEvents
                          /\ trace[n + 1].i = trace[n].i + 1
                     ELSE trace[n + 1].ev = "finalized"
                \* the terminal event, with the message of the flag
                /\ pc = "done" =>
                     /\ trace[Len(trace)].ev = "complete"
                     /\ trace[Len(trace) - 1].ev = "eval"
                     /\ trace[Len(trace)].m =
                            IF cancel_at >= 0 /\ cancel_at < Len(trace) - 1
                            THEN CancelledMsg ELSE ProcessedMsg)
    /\ [][ (/\ pc = "finalize"
            /\ Len(trace') = Len(trace) + 1
            /\ trace'[Len(trace')].ev \in FailedVisits)
           => fs' = fs ]_vars

\* a finished job of two converted files: the rename of the first failed,
\* the second was visited all the same, and the job ended "All files
\* processed."
C12_Witness ==
    /\ pc = "done" /\ Len(saved_pdf_paths) = 2
    /\ message = ProcessedMsg
    /\ \E n \in 1..(Len(trace) - 1) :
         /\ trace[n].ev = "rename_failed" /\ trace[n].i = 1
         /\ trace[n + 1].ev \in VisitEvents /\ trace[n + 1].i = 2

(***************************************************************************)
(* C13.  For every input basename ending in .xls or .xlsx the PDF basename *)
(* is the input basename with exactly that suffix removed and .pdf         *)
(* appended; for every other basename it is the whole basename with .pdf   *)
(* appended (data.csv.pdf gives data.csv.pdf.pdf).                         *)
(* Stated under PathSpec of the basename of pdf_path while the worker is   *)
(* in the loop body of the file it was computed for.                       *)
(***************************************************************************)
DotXls == <<".", "x", "l", "s">>
DotXlsx == <<".", "x", "l", "s", "x">>
DotPdf == <<".", "p", "d", "f">>

\* the name the claim gives for input basename b
ClaimedPdfName(b) ==
    IF EndsWith(b, DotXlsx) THEN Take(b, Len(b) - Len(DotXlsx)) \o DotPdf
    ELSE IF EndsWith(b, DotXls) THEN Take(b, Len(b) - Len(DotXls)) \o DotPdf
    ELSE b \o DotPdf

Occurrences(b) == {p \in 1..(Len(b) - 2) : SubSeq(b, p, p + 2) = <<"%", "2", "0">>}

\* the position in the new name of what is at position q of b
NewPos(b, q) == q - 2 * Cardinality({p \in Occurrences(b) : p < q})

\* nb is b with each occurrence replaced by a space and nothing else changed
IsPct20Image(b, nb) ==
    /\ Len(nb) = Len(b) - 2 * Cardinality(Occurrences(b))
    /\ \A q \in 1..Len(b) :
         IF q \in Occurrences(b) THEN nb[NewPos(b, q)] = " "
         ELSE IF (q - 1) \in Occurrences(b) \/ (q - 2) \in Occurrences(b) THEN TRUE
         ELSE nb[NewPos(b, q)] = b[q]

\* the directory part of a path: the path without its basename
DirPart(p) == Take(p, Len(p) - Len(Basename(p)))

C15_FlagMonotonic ==
    [][ /\ NewWorker => ~cancelled'
        /\ (cancelled /\ ~NewWorker) => cancelled'
        /\ (cancelled' # cancelled /\ ~NewWorker)
              => (gui_pc = "locked" /\ mutex = "gui" /\ mutex' = "gui")
        /\ (pc = "ic_locked" /\ pc' = "ic_read")
              => (mutex = "worker" /\ mutex' = "worker" /\ ic_cancelled' = cancelled)
      ]_vars

\* a job whose flag is false and which has not called is_cancelled yet,
\* started after a job in which is_cancelled last returned true
C15_Witness ==
    /\ pc = "running" /\ calls = 0
    /\ btn_text = "Cancel"
    /\ ~cancelled
    /\ ic_cancelled

(***************************************************************************)
(* C16.  Every started job terminates: each Engine call returning (with    *)
(* success or with an error), the worker eventually emits the terminal     *)
(* event, and the button, once it reads "Cancel" (enabled, or disabled     *)
(* after a cancel click), eventually is the enabled "Convert to PDF"       *)
(* again.                                                                  *)
(* Stated of the states in which the thread of convert_files has ended:    *)
(* the last thing it did was to emit the terminal event, and once that     *)
(* event is handled the button is back.  A state that violates this is one *)
(* the job never leaves: the thread takes no more steps, and only the      *)
(* terminal event restores the button.  The code violates it: an error     *)
(* returned by Dispatch, by the Visible assignment or by Quit escapes      *)
(* convert_files (the missing cleanup of C2), so that the thread ends      *)
(* without the terminal event and the button reads "Cancel" for ever.      *)
(***************************************************************************)
C16_JobTerminates ==
    WorkerEnded =>
        /\ trace # << >> /\ trace[Len(trace)].ev = "complete"
        /\ (\A q \in 1..Len(queue) : queue[q].sig # "complete")
              => (btn_text = "Convert to PDF" /\ btn_enabled)

(***************************************************************************)
(* C17.  At every point of a run saved_pdf_paths holds exactly the derived *)
(* output paths of the files of which an attempt has succeeded so far, in  *)
(* input order, one entry per such file: a file whose attempts all failed, *)
(* a file skipped or cut short by cancellation and a file not yet reached  *)
(* contribute no entry, and an entry stays when cancellation is flagged    *)
(* after it was made (the list only grows, until a new job has a new       *)
(* list).                                                                  *)
(***************************************************************************)
\* the successes of the run so far, in the order they happened
Successes == SelectSeq(trace, LAMBDA e : e.ev = "ok")

\* pdf_path for every output directory and input file of Spec, as a table
DerivedPath == [d \in OutputDirs, f \in FileNames |-> PdfPath(d, f)]

C17_SavedPathsAreSuccesses ==
    /\ [](/\ Len(saved_pdf_paths) = Len(Successes)
          /\ \A k \in 1..Len(Successes) :
               /\ Successes[k].i \in 1..Len(files)
               /\ saved_pdf_paths[k] = DerivedPath[output_dir, files[Successes[k].i]]
               /\ k > 1 => Successes[k - 1].i < Successes[k].i)
    /\ [][ ~NewWorker =>
             /\ Len(saved_pdf_paths') >= Len(saved_pdf_paths)
             /\ SubSeq(saved_pdf_paths', 1, Len(saved_pdf_paths)) = saved_pdf_paths
          ]_vars

\* a finished job of two different files: the first failed for good, the
\* second was converted, and the flag was set after that success
C17_Witness ==
    /\ pc = "done" /\ total_files = 2 /\ files[1] # files[2]
    /\ cancelled
    /\ AtOf("log_failed", 1) # {}
    /\ \E n \in AtOf("ok", 2) : cancel_at >= n
    /\ saved_pdf_paths = <<PdfPath(output_dir, files[2])>>

(***************************************************************************)
(* C18.  At most one conversion job runs at any time: through any sequence *)
(* of clicks, toggle_conversion creates a new worker and thread only when  *)
(* no earlier job is between its start and the handling of its terminal    *)
(* event (the earlier thread, if any, has returned, and no signal of it is *)
(* still queued), and a cancel click happens only while a job is running   *)
(* and flags the worker of that job, which is the last one created.        *)
(***************************************************************************)
\* the cancel branch of toggle_conversion runs in this step
CancelClick == btn_enabled /\ ~btn_enabled'

C18_OneJobAtATime ==
    [][ /\ NewWorker => (pc \in {"idle", "done"} /\ queue = << >>)
        /\ CancelClick =>
              /\ btn_text = "Cancel" /\ pc # "idle"
              /\ cancelled'
              /\ UNCHANGED <<files, trace, pc>>
      ]_vars

\* a job was started, cancelled by a click and ran to its end, and its
\* terminal event has been handled: the next click creates a new worker
C18_Witness ==
    /\ pc = "done" /\ cancelled /\ cancel_at >= 0
    /\ queue = << >>
    /\ btn_text = "Convert to PDF" /\ btn_enabled
=============================================================================
